---- MODULE Spec2Model ----
(***************************************************************************)
(* State-machine model of the zap-quiz session coordinator:                *)
(*   GameGateway  (src/src/gateways/game.gateway.ts)                       *)
(*   GameService  (src/src/db/schema/index.ts, lines 276-567)              *)
(*                                                                         *)
(* The Node.js event loop runs one synchronous segment at a time; a        *)
(* handler is suspended only at an `await`.  Every action below is one     *)
(* such segment, or one database statement of GameService taking effect.   *)
(***************************************************************************)
EXTENDS Integers, Sequences, FiniteSets, TLC

(* ------------------------------ universe ------------------------------ *)

Conns == {"c1", "c2"}
Games == {"g1", "g2"}
Users == {"u1", "u2"}
\* game codes a client may send: the code of each game, and one matching no game
Codes == Games \cup {"nocode"}
\* the host recorded in each game row (games.hostId)
HostOf == [g \in Games |-> "u1"]
Statuses == {"waiting", "in_progress", "completed", "cancelled"}
\* the question and option rows: question id -> points, option id -> isCorrect
QuestionPoints == [q \in {"q1"} |-> 2]
OptionCorrect == [o \in {"o1", "o2"} |-> (o = "o1")]
QuestionIds == {"q1", "qx"}
OptionIds == {"o1", "o2"}
\* connection ids are opaque: c1 is the name of the first socket to connect
ConnOrder == [c \in Conns |-> IF c = "c1" THEN 1 ELSE 2]
NoGame == "none"
NoPlayer == 0
NoTimer == 0

\* bounds of the model
MaxTimers == 2
MaxTicks == 6
MaxScanTicks == 4
MaxPlayers == 2
MaxInflight == 2
MaxScans == 2
MaxRequests == 2

\* program constants
TickPeriod == 1000
StaleThreshold == 30000
ScanPeriod == 15000

Durations == {1, 3}
ClockStep == TickPeriod \div 2
MaxClock == MaxTicks * ClockStep
MaxScanClock == MaxScanTicks * ScanPeriod

Min(a, b) == IF a < b THEN a ELSE b
Max(a, b) == IF a > b THEN a ELSE b
\* faulty variant: the seconds are rounded down
FloorSeconds(ms) == ms \div 1000
\* Math.ceil(ms / 1000) for a non-negative integer ms
CeilSeconds(ms) == (ms + 999) \div 1000

VARIABLES
    clock,            \* Date.now()
    connectedClients, \* the registry: per connection id, the entry object
    rooms,            \* socket.io adapter: the game rooms each socket is in
    sock,             \* transport state of each socket: new | open | closed
    countdownTimers,  \* game id -> interval handle, NoTimer when absent
    intervals,        \* the live (not cleared) setInterval tick sources
    nextTimer,        \* number of interval handles created so far
    gameStatus,       \* GameStore: games.status of each game row
    players,          \* GameStore: the players table, row id = index
    answers,          \* GameStore: the player_answers rows
    handlers,         \* the handler invocations suspended at an await
    scans,            \* the heartbeat scans suspended at an await
    scanDue,          \* when the heartbeat interval fires next
    requests,         \* number of client requests taken up so far
    out,              \* the events emitted by the last step, in order
    step,             \* the last step: its name, connection, user, its call's success
    ended,            \* history: handle -> number of COUNTDOWN_END it emitted
    cancelled,        \* history: handle -> why it was cleared before it ended, or ""
    evicted           \* history: connection -> PLAYER_LEFT_LOBBY sent by its eviction

memVars == <<connectedClients, rooms, sock, countdownTimers, intervals, out,
             ended, cancelled>>
timeVars == <<clock, nextTimer, scanDue, requests>>
storeVars == <<gameStatus, players, answers>>
vars == <<clock, connectedClients, rooms, sock, countdownTimers, intervals,
          nextTimer, gameStatus, players, answers, handlers, scans, scanDue,
          requests, out, step, ended, cancelled, evicted>>

(* --------------------------- gateway memory --------------------------- *)

\* The in-process state a synchronous segment reads and writes.
Mem ==
    [clients |-> connectedClients, rooms |-> rooms, sock |-> sock,
     timers |-> countdownTimers, ivs |-> intervals, out |-> <<>>,
     ended |-> ended, cancelled |-> cancelled]

Commit(m) ==
    /\ connectedClients' = m.clients
    /\ rooms' = m.rooms
    /\ sock' = m.sock
    /\ countdownTimers' = m.timers
    /\ intervals' = m.ivs
    /\ out' = m.out
    /\ ended' = m.ended
    /\ cancelled' = m.cancelled

NoEntry == [present |-> FALSE, gameId |-> NoGame, playerId |-> NoPlayer, lastPing |-> 0]

\* the sockets a broadcast to the room of game g reaches
RoomMembers(m, g) == {c \in Conns : g \in m.rooms[c] /\ m.sock[c] = "open"}

\* this.server.to(getRoomName(g)).emit(ev, payload)
EmitRoom(m, ev, g, payload) ==
    [m EXCEPT !.out = Append(@, [ev |-> ev, room |-> g, to |-> RoomMembers(m, g),
                                 pl |-> payload])]

\* faulty variant: the reply goes to the room of the caller's game
EmitClient_ToRoom(m, ev, c, payload) ==
    EmitRoom(m, ev, m.clients[c].gameId, payload)

\* client.emit(ev, payload)
EmitClient(m, ev, c, payload) ==
    [m EXCEPT !.out = Append(@, [ev |-> ev, room |-> NoGame, to |-> {c},
                                 pl |-> payload])]

(* ------------------------------ countdown ----------------------------- *)

\* faulty variant: the table entry is deleted, the interval is not cleared
clearCountdown_KeepInterval(m, g) == [m EXCEPT !.timers[g] = NoTimer]

\* clearCountdown(gameId)
clearCountdown(m, g) ==
    LET timer == m.timers[g] IN
    IF timer # NoTimer
    THEN [m EXCEPT !.ivs = {iv \in @ : iv.id # timer},
                   !.timers[g] = NoTimer]
    ELSE m

\* clearCountdown called from outside the tick callback; the history keeps why
cancelCountdown(m, g, why) ==
    LET timer == m.timers[g] IN
    IF timer # NoTimer
    THEN [clearCountdown(m, g) EXCEPT !.cancelled[timer] = why]
    ELSE m

\* startCountdown(gameId, duration), id the fresh interval handle
startCountdown(m, g, duration, id, now) ==
    LET startTime == now
        endTime == startTime + duration * 1000
        m1 == EmitRoom(m, "COUNTDOWN_START", g, <<duration, startTime, endTime>>)
    IN [m1 EXCEPT !.ivs = @ \cup {[id |-> id, gameId |-> g, endTime |-> endTime,
                                   due |-> now + TickPeriod, duration |-> duration,
                                   last |-> 0, n |-> 0]},
                  !.timers[g] = id]

\* faulty variant: COUNTDOWN_END is emitted but the countdown is not cleared
tickCallback_NoClear(m, iv, now) ==
    LET remainingTime == Max(0, iv.endTime - now)
        currentNumber == CeilSeconds(remainingTime)
    IN IF remainingTime <= 0
       THEN [EmitRoom(m, "COUNTDOWN_END", iv.gameId, <<iv.id>>)
               EXCEPT !.ended[iv.id] = Min(2, @ + 1),
                      !.ivs = {IF x.id = iv.id THEN [x EXCEPT !.due = now + TickPeriod]
                               ELSE x : x \in @}]
       ELSE LET m1 == EmitRoom(m, "COUNTDOWN_TICK", iv.gameId,
                               <<currentNumber, remainingTime, iv.id>>)
            IN [m1 EXCEPT !.ivs = {IF x.id = iv.id
                                   THEN [x EXCEPT !.due = now + TickPeriod,
                                                  !.last = currentNumber,
                                                  !.n = @ + 1]
                                   ELSE x : x \in @}]

\* faulty variant: the end test is remainingTime < 0, which max(0, ...) never meets
tickCallback_NeverEnds(m, iv, now) ==
    LET remainingTime == Max(0, iv.endTime - now)
        currentNumber == CeilSeconds(remainingTime)
        m1 == EmitRoom(m, "COUNTDOWN_TICK", iv.gameId,
                       <<currentNumber, remainingTime, iv.id>>)
    IN [m1 EXCEPT !.ivs = {IF x.id = iv.id
                           THEN [x EXCEPT !.due = now + TickPeriod,
                                          !.last = currentNumber]
                           ELSE x : x \in @}]

\* the setInterval callback of startCountdown, for the interval iv
tickCallback(m, iv, now) ==
    LET remainingTime == Max(0, iv.endTime - now)
        currentNumber == CeilSeconds(remainingTime)
    IN IF remainingTime <= 0
       THEN LET m1 == EmitRoom(m, "COUNTDOWN_END", iv.gameId, <<iv.id>>)
                m2 == [m1 EXCEPT !.ended[iv.id] = Min(2, @ + 1)]
            IN clearCountdown(m2, iv.gameId)
       ELSE LET m1 == EmitRoom(m, "COUNTDOWN_TICK", iv.gameId,
                               <<currentNumber, remainingTime, iv.id>>)
            IN [m1 EXCEPT !.ivs = {IF x.id = iv.id
                                   THEN [x EXCEPT !.due = now + TickPeriod,
                                                  !.last = currentNumber,
                                                  !.n = @ + 1]
                                   ELSE x : x \in @}]

\* faulty variant: the new countdown is started without clearing the existing one
handleStartCountdown_NoClear(m, g, duration, id, now) ==
    startCountdown(m, g, duration, id, now)

\* handleStartCountdown: clear any existing countdown, then start the new one
handleStartCountdown(m, g, duration, id, now) ==
    startCountdown(cancelCountdown(m, g, "replaced"), g, duration, id, now)

\* faulty variant: stopping announces the end of the countdown to the room
handleStopCountdown_End(m, g) ==
    IF m.timers[g] # NoTimer
    THEN cancelCountdown(EmitRoom(m, "COUNTDOWN_END", g, <<m.timers[g]>>), g, "stopped")
    ELSE m

\* handleStopCountdown
handleStopCountdown(m, g) == cancelCountdown(m, g, "stopped")

(* ----------------------------- connections ---------------------------- *)

\* getConnectedPlayers(gameId); avail is whether the adapter's rooms map is there
getConnectedPlayers(m, g, avail) ==
    IF ~avail THEN {} ELSE {c \in Conns : g \in m.rooms[c]}

\* handleConnection(client)
handleConnection(m, c, now) ==
    [m EXCEPT !.clients[c] = [present |-> TRUE, gameId |-> NoGame,
                              playerId |-> NoPlayer, lastPing |-> now]]

\* faulty variant: the registry entry is not deleted
handleDisconnect_KeepEntry(m, c, avail) ==
    LET clientData == m.clients[c] IN
    IF clientData.present /\ clientData.gameId # NoGame /\ clientData.playerId # NoPlayer
    THEN EmitRoom(m, "PLAYER_LEFT", clientData.gameId,
                  <<clientData.playerId, clientData.gameId>>)
    ELSE m

\* handleDisconnect(client)
handleDisconnect(m, c, avail) ==
    LET clientData == m.clients[c]
        m1 == IF clientData.present /\ clientData.gameId # NoGame
                 /\ clientData.playerId # NoPlayer
              THEN LET e == EmitRoom(m, "PLAYER_LEFT", clientData.gameId,
                                     <<clientData.playerId, clientData.gameId>>)
                       connectedPlayers == getConnectedPlayers(e, clientData.gameId, avail)
                   IN IF Cardinality(connectedPlayers) <= 1
                      THEN cancelCountdown(e, clientData.gameId, "disconnect")
                      ELSE e
              ELSE m
    IN [m1 EXCEPT !.clients[c].present = FALSE]

\* faulty variant: the socket is left as it is
socketClose_Nothing(m, c, avail) == m

\* the transport closes socket c: socket.io leaves every room, then raises the
\* disconnect event, which runs handleDisconnect synchronously
socketClose(m, c, avail) ==
    IF m.sock[c] # "open" THEN m
    ELSE handleDisconnect([m EXCEPT !.rooms[c] = {}, !.sock[c] = "closed"], c, avail)


\* faulty variant: the entry is written anew with Map.set
handlePing_NewEntry(m, c, now) ==
    EmitClient([m EXCEPT !.clients[c] = [present |-> TRUE, gameId |-> NoGame,
                                         playerId |-> NoPlayer, lastPing |-> now]],
               "PONG", c, <<>>)

\* handlePing(client)
handlePing(m, c, now) ==
    LET m1 == IF m.clients[c].present
              THEN [m EXCEPT !.clients[c].lastPing = now]
              ELSE m
    IN EmitClient(m1, "PONG", c, <<>>)

(* ------------------------------ GameService --------------------------- *)

\* findGameByCode(code): the game row, or null (also when the query throws)
findGameByCode(code, ok) == IF ok /\ code \in Games THEN code ELSE NoGame

\* faulty variant: the existence check finds no row
ActivePlayersOf_None(ps, g, u) == {}

\* the rows the existence check of addPlayerToGame selects from
ActivePlayersOf(ps, g, u) ==
    {p \in DOMAIN ps : ps[p].gameId = g /\ ps[p].userId = u /\ ps[p].isActive}

\* faulty variant: the roster is always empty
getGamePlayers_Nothing(ps, g, ok) == {}

\* getGamePlayers(gameId): the active players of the game, [] when the query throws
getGamePlayers(ps, g, ok) ==
    IF ok THEN {p \in DOMAIN ps : ps[p].gameId = g /\ ps[p].isActive} ELSE {}

\* removePlayerFromGame(gameId, playerId): the players table after the update
removePlayerFromGame(ps, g, p, ok) ==
    IF ok
    THEN [i \in DOMAIN ps |-> IF i = p /\ ps[i].gameId = g
                              THEN [ps[i] EXCEPT !.isActive = FALSE]
                              ELSE ps[i]]
    ELSE ps

\* faulty variant: every user of an existing game counts as its host
isUserHost_AnyUser(g, u, ok) == ok /\ g \in Games

\* isUserHost(gameId, userId)
isUserHost(g, u, ok) == ok /\ g \in Games /\ HostOf[g] = u

\* faulty variant: success is reported but no row is written
insertPlayer_NoRow(ps, g, u) == ps

\* the insert of addPlayerToGame
insertPlayer(ps, g, u) ==
    Append(ps, [gameId |-> g, userId |-> u, isActive |-> TRUE])

(* ------------------------------- handlers ----------------------------- *)

Idle ==
    [kind |-> "idle", pc |-> "", conn |-> "", game |-> NoGame, user |-> "",
     player |-> NoPlayer, roster |-> {}, seen |-> {}, arg |-> <<>>, res |-> <<>>,
     dirty |-> FALSE, created |-> FALSE]

Slots == 1..MaxInflight
\* a request is taken up in the lowest free slot
Free(i) ==
    /\ handlers[i].kind = "idle"
    /\ \A j \in Slots : j < i => handlers[j].kind # "idle"

TakeRequest == requests < MaxRequests /\ requests' = requests + 1

\* call names the GameStore call the step made, ok whether it succeeded
Stepped(act, c, call, ok) ==
    step' = [act |-> act, conn |-> c, ok |-> ok, user |-> ""]

\* the step of a request that names the user it is made for
SteppedFor(act, c, u, ok) ==
    step' = [act |-> act, conn |-> c, ok |-> ok, user |-> u]

\* the handler in slot i moves on as h / returns
Goto(i, h) == handlers' = [handlers EXCEPT ![i] = h]
Return(i) == handlers' = [handlers EXCEPT ![i] = Idle]
At(i, kind, pc) == handlers[i].kind = kind /\ handlers[i].pc = pc

\* a step that only replies `ev` to the caller and returns
Reject(i, ev) ==
    /\ Commit(EmitClient(Mem, ev, handlers[i].conn, <<>>))
    /\ Return(i)

(* JOIN_LOBBY: handleJoinLobby, with addPlayerToGame statement by statement *)

\* the request arrives; findGameByCode runs; the status check
JoinLobby(i, c, code, u, ok) ==
    /\ sock[c] = "open"
    /\ Free(i)
    /\ TakeRequest
    /\ LET game == findGameByCode(code, ok)
       IN /\ Stepped("JoinLobby", c, "findGameByCode", game # NoGame)
          /\ IF game = NoGame \/ gameStatus[game] # "waiting"
             THEN /\ Commit(EmitClient(Mem, "LOBBY_ERROR", c, <<>>))
                  /\ UNCHANGED handlers
             ELSE /\ Commit(Mem)
                  /\ Goto(i, [Idle EXCEPT !.kind = "join", !.pc = "add_game",
                                          !.conn = c, !.game = game, !.user = u])
    /\ UNCHANGED <<clock, nextTimer, scanDue, storeVars, scans, evicted>>

\* addPlayerToGame 1: the game row is read again
JoinAddGame(i, ok) ==
    /\ At(i, "join", "add_game")
    /\ LET h == handlers[i]
           success == ok /\ gameStatus[h.game] = "waiting"
       IN /\ Stepped("JoinAddGame", h.conn, "addPlayerToGame", success)
          /\ IF success
             THEN Commit(Mem) /\ Goto(i, [h EXCEPT !.pc = "add_existing"])
             ELSE Reject(i, "LOBBY_ERROR")
    /\ UNCHANGED <<timeVars, storeVars, scans, evicted>>

\* addPlayerToGame 2: an active player of this user in this game is returned
JoinAddExisting(i, ok) ==
    /\ At(i, "join", "add_existing")
    /\ LET h == handlers[i]
           existingPlayer == ActivePlayersOf(players, h.game, h.user)
       IN /\ Stepped("JoinAddExisting", h.conn, "addPlayerToGame", ok)
          /\ IF ~ok THEN Reject(i, "LOBBY_ERROR")
             ELSE IF existingPlayer # {}
             THEN /\ Commit(Mem)
                  /\ \E p \in existingPlayer :
                        Goto(i, [h EXCEPT !.pc = "room", !.player = p,
                                          !.seen = existingPlayer])
             ELSE Commit(Mem) /\ Goto(i, [h EXCEPT !.pc = "add_insert"])
    /\ UNCHANGED <<timeVars, storeVars, scans, evicted>>

\* addPlayerToGame 3: the player row is inserted
JoinAddInsert(i, ok) ==
    /\ At(i, "join", "add_insert")
    /\ ok => Len(players) < MaxPlayers
    /\ LET h == handlers[i] IN
       /\ Stepped("JoinAddInsert", h.conn, "addPlayerToGame", ok)
       /\ IF ok
          THEN /\ players' = insertPlayer(players, h.game, h.user)
               /\ Commit(Mem)
               /\ Goto(i, [h EXCEPT !.pc = "room", !.player = Len(players) + 1,
                                    !.created = TRUE])
          ELSE /\ Reject(i, "LOBBY_ERROR")
               /\ UNCHANGED players
    /\ UNCHANGED <<timeVars, gameStatus, answers, scans, evicted>>

\* await client.join(room)
JoinRoom(i) ==
    /\ At(i, "join", "room")
    /\ LET h == handlers[i] IN
       /\ Stepped("JoinRoom", h.conn, "", TRUE)
       /\ Commit([Mem EXCEPT !.rooms[h.conn] = @ \cup {h.game}])
       /\ Goto(i, [h EXCEPT !.pc = "bind", !.dirty = TRUE])
    /\ UNCHANGED <<timeVars, storeVars, scans, evicted>>

\* faulty variant: the binding is written with Map.set, entry or no entry
JoinBind_Unguarded(i) ==
    /\ At(i, "join", "bind")
    /\ LET h == handlers[i] IN
       /\ Stepped("JoinBind", h.conn, "", TRUE)
       /\ Commit([Mem EXCEPT !.clients[h.conn].present = TRUE,
                             !.clients[h.conn].gameId = h.game,
                             !.clients[h.conn].playerId = h.player])
       /\ Goto(i, [h EXCEPT !.pc = "players"])
    /\ UNCHANGED <<timeVars, storeVars, scans, evicted>>

\* the registry entry is bound; getGamePlayers is called
JoinBind(i) ==
    /\ At(i, "join", "bind")
    /\ LET h == handlers[i] IN
       /\ Stepped("JoinBind", h.conn, "", TRUE)
       /\ Commit(IF connectedClients[h.conn].present
                 THEN [Mem EXCEPT !.clients[h.conn].gameId = h.game,
                                  !.clients[h.conn].playerId = h.player]
                 ELSE Mem)
       /\ Goto(i, [h EXCEPT !.pc = "players"])
    /\ UNCHANGED <<timeVars, storeVars, scans, evicted>>

\* getGamePlayers reads the roster; res keeps whether the query succeeded
JoinPlayers(i, ok) ==
    /\ At(i, "join", "players")
    /\ LET h == handlers[i] IN
       /\ Stepped("JoinPlayers", h.conn, "getGamePlayers", ok)
       /\ Commit(Mem)
       /\ Goto(i, [h EXCEPT !.pc = "bcast", !.res = <<ok>>,
                            !.roster = getGamePlayers(players, h.game, ok)])
    /\ UNCHANGED <<timeVars, storeVars, scans, evicted>>

\* PLAYER_JOINED_LOBBY to the room, LOBBY_JOINED to the caller
JoinBroadcast(i) ==
    /\ At(i, "join", "bcast")
    /\ LET h == handlers[i]
           m1 == EmitRoom(Mem, "PLAYER_JOINED_LOBBY", h.game, <<h.player, h.roster>>)
       IN /\ Stepped("JoinBroadcast", h.conn, "", TRUE)
          /\ Commit(EmitClient(m1, "LOBBY_JOINED", h.conn, <<h.player, h.roster>>))
          /\ Return(i)
    /\ UNCHANGED <<timeVars, storeVars, scans, evicted>>

(* LEAVE_LOBBY: handleLeaveLobby *)

\* the request arrives; removePlayerFromGame runs
LeaveLobby(i, c, g, p, ok) ==
    /\ sock[c] = "open"
    /\ Free(i)
    /\ TakeRequest
    /\ players' = removePlayerFromGame(players, g, p, ok)
    /\ Stepped("LeaveLobby", c, "removePlayerFromGame", ok)
    /\ IF ok
       THEN /\ Commit(Mem)
            /\ Goto(i, [Idle EXCEPT !.kind = "leaveLobby", !.pc = "room",
                                          !.conn = c, !.game = g, !.player = p])
       ELSE /\ Commit(EmitClient(Mem, "LOBBY_ERROR", c, <<>>))
            /\ UNCHANGED handlers
    /\ UNCHANGED <<clock, nextTimer, scanDue, gameStatus, answers, scans, evicted>>

\* await client.leave(room)
LeaveLobbyRoom(i) ==
    /\ At(i, "leaveLobby", "room")
    /\ LET h == handlers[i] IN
       /\ Stepped("LeaveLobbyRoom", h.conn, "", TRUE)
       /\ Commit([Mem EXCEPT !.rooms[h.conn] = @ \ {h.game}])
       /\ Goto(i, [h EXCEPT !.pc = "bind", !.dirty = TRUE])
    /\ UNCHANGED <<timeVars, storeVars, scans, evicted>>

\* the binding is cleared; getGamePlayers is called
LeaveLobbyBind(i) ==
    /\ At(i, "leaveLobby", "bind")
    /\ LET h == handlers[i] IN
       /\ Stepped("LeaveLobbyBind", h.conn, "", TRUE)
       /\ Commit(IF connectedClients[h.conn].present
                 THEN [Mem EXCEPT !.clients[h.conn].gameId = NoGame,
                                  !.clients[h.conn].playerId = NoPlayer]
                 ELSE Mem)
       /\ Goto(i, [h EXCEPT !.pc = "players"])
    /\ UNCHANGED <<timeVars, storeVars, scans, evicted>>

\* getGamePlayers reads the roster; res keeps whether the query succeeded
LeaveLobbyPlayers(i, ok) ==
    /\ At(i, "leaveLobby", "players")
    /\ LET h == handlers[i] IN
       /\ Stepped("LeaveLobbyPlayers", h.conn, "getGamePlayers", ok)
       /\ Commit(Mem)
       /\ Goto(i, [h EXCEPT !.pc = "bcast", !.res = <<ok>>,
                            !.roster = getGamePlayers(players, h.game, ok)])
    /\ UNCHANGED <<timeVars, storeVars, scans, evicted>>

\* PLAYER_LEFT_LOBBY to the room, LOBBY_LEFT to the caller
LeaveLobbyBroadcast(i) ==
    /\ At(i, "leaveLobby", "bcast")
    /\ LET h == handlers[i]
           m1 == EmitRoom(Mem, "PLAYER_LEFT_LOBBY", h.game, <<h.player, h.roster>>)
       IN /\ Stepped("LeaveLobbyBroadcast", h.conn, "", TRUE)
          /\ Commit(EmitClient(m1, "LOBBY_LEFT", h.conn, <<h.game>>))
          /\ Return(i)
    /\ UNCHANGED <<timeVars, storeVars, scans, evicted>>

(* LEAVE_GAME: handleLeaveGame *)

LeaveGame(i, c, g, p, ok) ==
    /\ sock[c] = "open"
    /\ Free(i)
    /\ TakeRequest
    /\ players' = removePlayerFromGame(players, g, p, ok)
    /\ Stepped("LeaveGame", c, "removePlayerFromGame", ok)
    /\ IF ok
       THEN /\ Commit(Mem)
            /\ Goto(i, [Idle EXCEPT !.kind = "leaveGame", !.pc = "room",
                                          !.conn = c, !.game = g, !.player = p])
       ELSE /\ Commit(EmitClient(Mem, "ERROR", c, <<>>))
            /\ UNCHANGED handlers
    /\ UNCHANGED <<clock, nextTimer, scanDue, gameStatus, answers, scans, evicted>>

LeaveGameRoom(i) ==
    /\ At(i, "leaveGame", "room")
    /\ LET h == handlers[i] IN
       /\ Stepped("LeaveGameRoom", h.conn, "", TRUE)
       /\ Commit([Mem EXCEPT !.rooms[h.conn] = @ \ {h.game}])
       /\ Goto(i, [h EXCEPT !.pc = "bind", !.dirty = TRUE])
    /\ UNCHANGED <<timeVars, storeVars, scans, evicted>>

\* the binding is cleared; PLAYER_LEFT to the room, LEAVE_GAME_SUCCESS to the caller
LeaveGameBind(i) ==
    /\ At(i, "leaveGame", "bind")
    /\ LET h == handlers[i]
           m1 == IF connectedClients[h.conn].present
                 THEN [Mem EXCEPT !.clients[h.conn].gameId = NoGame,
                                  !.clients[h.conn].playerId = NoPlayer]
                 ELSE Mem
           m2 == EmitRoom(m1, "PLAYER_LEFT", h.game, <<h.player, h.game>>)
       IN /\ Stepped("LeaveGameBind", h.conn, "", TRUE)
          /\ Commit(EmitClient(m2, "LEAVE_GAME_SUCCESS", h.conn, <<h.game>>))
          /\ Return(i)
    /\ UNCHANGED <<timeVars, storeVars, scans, evicted>>

(* START_GAME: handleStartGame, with startGame statement by statement *)

\* the request arrives; isUserHost runs
StartGame(i, c, g, u, ok) ==
    /\ sock[c] = "open"
    /\ Free(i)
    /\ TakeRequest
    /\ LET isHost == isUserHost(g, u, ok) IN
       /\ SteppedFor("StartGame", c, u, isHost)
       /\ IF isHost
          THEN /\ Commit(Mem)
               /\ Goto(i, [Idle EXCEPT !.kind = "start", !.pc = "start_host",
                                             !.conn = c, !.game = g, !.user = u])
          ELSE /\ Commit(EmitClient(Mem, "ERROR", c, <<>>))
               /\ UNCHANGED handlers
    /\ UNCHANGED <<clock, nextTimer, scanDue, storeVars, scans, evicted>>

\* startGame 1: isUserHost again
StartGameHost(i, ok) ==
    /\ At(i, "start", "start_host")
    /\ LET h == handlers[i]
           isHost == isUserHost(h.game, h.user, ok)
       IN /\ Stepped("StartGameHost", h.conn, "startGame", isHost)
          /\ IF isHost
             THEN Commit(Mem) /\ Goto(i, [h EXCEPT !.pc = "start_update"])
             ELSE Reject(i, "ERROR")
    /\ UNCHANGED <<timeVars, storeVars, scans, evicted>>

\* startGame 2: the status is set to in_progress; arg keeps the status replaced
StartGameUpdate(i, ok) ==
    /\ At(i, "start", "start_update")
    /\ LET h == handlers[i] IN
       /\ Stepped("StartGameUpdate", h.conn, "startGame", ok)
       /\ IF ok
          THEN /\ gameStatus' = [gameStatus EXCEPT ![h.game] = "in_progress"]
               /\ Commit(Mem)
               /\ Goto(i, [h EXCEPT !.pc = "bcast", !.arg = <<gameStatus[h.game]>>])
          ELSE /\ Reject(i, "ERROR")
               /\ UNCHANGED gameStatus
    /\ UNCHANGED <<timeVars, players, answers, scans, evicted>>

\* GAME_STARTED to the room
StartGameBroadcast(i) ==
    /\ At(i, "start", "bcast")
    /\ LET h == handlers[i] IN
       /\ Stepped("StartGameBroadcast", h.conn, "", TRUE)
       /\ Commit(EmitRoom(Mem, "GAME_STARTED", h.game, <<h.game>>))
       /\ Return(i)
    /\ UNCHANGED <<timeVars, storeVars, scans, evicted>>

(* ANSWER_QUESTION: handleAnswerQuestion, savePlayerAnswer by statement *)

\* the request arrives; the question and the option are read
AnswerQuestion(i, c, g, p, q, o, t, ok) ==
    /\ sock[c] = "open"
    /\ Free(i)
    /\ TakeRequest
    /\ LET found == ok /\ q \in DOMAIN QuestionPoints /\ o \in DOMAIN OptionCorrect IN
       /\ Stepped("AnswerQuestion", c, "savePlayerAnswer", found)
       /\ IF found
          THEN LET isCorrect == OptionCorrect[o]
                   points == IF isCorrect THEN QuestionPoints[q] ELSE 0
               IN /\ Commit(Mem)
                  /\ Goto(i, [Idle EXCEPT !.kind = "answer", !.pc = "insert",
                                                !.conn = c, !.game = g, !.player = p,
                                                !.arg = <<q, o, t>>,
                                                !.res = <<isCorrect, points>>])
          ELSE /\ Commit(EmitClient(Mem, "ERROR", c, <<>>))
               /\ UNCHANGED handlers
    /\ UNCHANGED <<clock, nextTimer, scanDue, storeVars, scans, evicted>>

\* the answer row is inserted (player_id references players.id)
AnswerInsert(i, ok) ==
    /\ At(i, "answer", "insert")
    /\ LET h == handlers[i]
           success == ok /\ h.player \in DOMAIN players
       IN /\ Stepped("AnswerInsert", h.conn, "savePlayerAnswer", success)
          /\ IF success
             THEN /\ answers' = answers \cup {<<h.player, h.arg[1], h.arg[2], h.arg[3], h.res[1]>>}
                  /\ Commit(Mem)
                  /\ Goto(i, [h EXCEPT !.pc = "bcast"])
             ELSE /\ Reject(i, "ERROR")
                  /\ UNCHANGED answers
    /\ UNCHANGED <<timeVars, gameStatus, players, scans, evicted>>

\* faulty variant: the broadcast goes to the room of the game the caller is bound to
AnswerBroadcast_BoundRoom(i) ==
    /\ At(i, "answer", "bcast")
    /\ LET h == handlers[i] IN
       /\ Stepped("AnswerBroadcast", h.conn, "", TRUE)
       /\ Commit(EmitRoom(Mem, "PLAYER_ANSWERED", connectedClients[h.conn].gameId,
                          <<h.player, h.arg[1], h.arg[3], h.res[1], h.res[2]>>))
       /\ Return(i)
    /\ UNCHANGED <<timeVars, storeVars, scans, evicted>>

\* PLAYER_ANSWERED to the room
AnswerBroadcast(i) ==
    /\ At(i, "answer", "bcast")
    /\ LET h == handlers[i] IN
       /\ Stepped("AnswerBroadcast", h.conn, "", TRUE)
       /\ Commit(EmitRoom(Mem, "PLAYER_ANSWERED", h.game,
                          <<h.player, h.arg[1], h.arg[3], h.res[1], h.res[2]>>))
       /\ Return(i)
    /\ UNCHANGED <<timeVars, storeVars, scans, evicted>>

(* ------------------------- heartbeat monitor -------------------------- *)

NoScan ==
    [pc |-> "idle", stale |-> <<>>, conn |-> "", game |-> NoGame, player |-> NoPlayer,
     room |-> NoGame, pid |-> NoPlayer, gid |-> NoGame, roster |-> {}]

ScanSlots == 1..MaxScans
FreeScans == {s \in ScanSlots : scans[s].pc = "idle"}
NewScan == CHOOSE s \in FreeScans : \A j \in FreeScans : s <= j

\* the registry entries in Map order whose last ping is older than the threshold
RECURSIVE StaleFrom(_, _)
StaleFrom(k, now) ==
    IF k > Cardinality(Conns) THEN <<>>
    ELSE LET c == CHOOSE x \in Conns : ConnOrder[x] = k
             clientData == connectedClients[c]
             timeSinceLastPing == now - clientData.lastPing
         IN (IF clientData.present /\ timeSinceLastPing > StaleThreshold
             THEN <<c>> ELSE <<>>) \o StaleFrom(k + 1, now)

\* the loop over staleClients from one await to the next: cleanupStaleClient
\* returns at once for a deleted entry, closes and deletes an unbound one, and
\* is suspended in removePlayerFromGame for a bound one
RECURSIVE cleanupFrom(_, _, _)
cleanupFrom(m, stale, avail) ==
    IF stale = <<>> THEN [mem |-> m, scan |-> NoScan]
    ELSE LET c == Head(stale)
             clientData == m.clients[c]
         IN IF ~clientData.present
            THEN cleanupFrom(m, Tail(stale), avail)
            ELSE IF clientData.gameId # NoGame /\ clientData.playerId # NoPlayer
            THEN [mem |-> m,
                  scan |-> [NoScan EXCEPT !.pc = "remove", !.conn = c,
                                          !.stale = Tail(stale),
                                          !.game = clientData.gameId,
                                          !.player = clientData.playerId]]
            ELSE cleanupFrom([socketClose(m, c, avail)
                                EXCEPT !.clients[c].present = FALSE],
                             Tail(stale), avail)

\* the heartbeat interval fires: the stale clients are collected and cleaned up
HeartbeatFire(avail) ==
    /\ clock >= scanDue
    /\ FreeScans # {}
    /\ scanDue' = clock + ScanPeriod
    /\ LET r == cleanupFrom(Mem, StaleFrom(1, clock), avail) IN
       /\ scans' = [scans EXCEPT ![NewScan] = r.scan]
       /\ Commit(r.mem)
    /\ Stepped("HeartbeatFire", "", "", TRUE)
    /\ UNCHANGED <<clock, nextTimer, requests, storeVars, handlers, evicted>>

\* removePlayerFromGame of the cleanup takes effect; its result is not read
ScanRemove(s, ok) ==
    /\ scans[s].pc = "remove"
    /\ LET sc == scans[s] IN
       /\ players' = removePlayerFromGame(players, sc.game, sc.player, ok)
       /\ Stepped("ScanRemove", sc.conn, "removePlayerFromGame", ok)
       /\ scans' = [scans EXCEPT ![s].pc = "read"]
    /\ Commit(Mem)
    /\ UNCHANGED <<timeVars, gameStatus, answers, handlers, evicted>>

\* the cleanup resumes: room and payload are read from the entry, getGamePlayers is called
ScanRead(s) ==
    /\ scans[s].pc = "read"
    /\ LET sc == scans[s]
           clientData == connectedClients[sc.conn]
       IN /\ Stepped("ScanRead", sc.conn, "", TRUE)
          /\ scans' = [scans EXCEPT ![s] =
                          [sc EXCEPT !.pc = "players", !.room = clientData.gameId,
                                     !.pid = clientData.playerId,
                                     !.gid = clientData.gameId]]
    /\ Commit(Mem)
    /\ UNCHANGED <<timeVars, storeVars, handlers, evicted>>

ScanPlayers(s, ok) ==
    /\ scans[s].pc = "players"
    /\ LET sc == scans[s] IN
       /\ Stepped("ScanPlayers", sc.conn, "getGamePlayers", ok)
       /\ scans' = [scans EXCEPT ![s] =
                       [sc EXCEPT !.pc = "emit",
                                  !.roster = getGamePlayers(players, sc.gid, ok)]]
    /\ Commit(Mem)
    /\ UNCHANGED <<timeVars, storeVars, handlers, evicted>>

\* PLAYER_LEFT_LOBBY to the room; the socket is disconnected; the entry is
\* deleted; the loop goes on to the next stale client
ScanEmit(s, avail) ==
    /\ scans[s].pc = "emit"
    /\ LET sc == scans[s]
           m1 == EmitRoom(Mem, "PLAYER_LEFT_LOBBY", sc.room, <<sc.pid, sc.gid, sc.roster>>)
           m2 == socketClose(m1, sc.conn, avail)
           r == cleanupFrom([m2 EXCEPT !.clients[sc.conn].present = FALSE],
                            sc.stale, avail)
       IN /\ Stepped("ScanEmit", sc.conn, "", TRUE)
          /\ Commit(r.mem)
          /\ evicted' = [evicted EXCEPT ![sc.conn] = Min(2, @ + 1)]
          /\ scans' = [scans EXCEPT ![s] = r.scan]
    /\ UNCHANGED <<timeVars, storeVars, handlers>>

(* ---------------------- connections, clock, timers -------------------- *)

\* the gateway after construction, with no request served yet
InitGateway ==
    /\ clock = 0
    /\ connectedClients = [c \in Conns |-> NoEntry]
    /\ rooms = [c \in Conns |-> {}]
    /\ sock = [c \in Conns |-> "new"]
    /\ countdownTimers = [g \in Games |-> NoTimer]
    /\ intervals = {}
    /\ nextTimer = 0
    /\ players = <<>>
    /\ answers = {}
    /\ handlers = [i \in Slots |-> Idle]
    /\ scans = [s \in ScanSlots |-> NoScan]
    /\ scanDue = ScanPeriod
    /\ requests = 0
    /\ out = <<>>
    /\ step = [act |-> "Init", conn |-> "", ok |-> TRUE, user |-> ""]
    /\ ended = [i \in 1..MaxTimers |-> 0]
    /\ cancelled = [i \in 1..MaxTimers |-> ""]
    /\ evicted = [c \in Conns |-> 0]

\* every game is waiting for players
Init ==
    /\ InitGateway
    /\ gameStatus = [g \in Games |-> "waiting"]

\* the games were created, and possibly started or finished, by other services
InitAnyStatus ==
    /\ InitGateway
    /\ gameStatus \in [Games -> Statuses]

Quiet == UNCHANGED <<storeVars, handlers, scans, evicted>>

\* time is counted from the arrival of the first connection
AdvanceClock(d, max) ==
    /\ \E c \in Conns : sock[c] # "new"
    /\ clock + d <= max
    /\ clock' = clock + d
    /\ Stepped("AdvanceClock", "", "", TRUE)
    /\ Commit(Mem)
    /\ UNCHANGED <<nextTimer, scanDue, requests>>
    /\ Quiet

Connect(c) ==
    /\ sock[c] = "new"
    /\ \A b \in Conns : ConnOrder[b] < ConnOrder[c] => sock[b] # "new"
    /\ Stepped("Connect", c, "", TRUE)
    /\ Commit(handleConnection([Mem EXCEPT !.sock[c] = "open"], c, clock))
    /\ UNCHANGED timeVars
    /\ Quiet

\* the client goes away: the transport closes the socket
Disconnect(c, avail) ==
    /\ sock[c] = "open"
    /\ Stepped("Disconnect", c, "", TRUE)
    /\ Commit(socketClose(Mem, c, avail))
    /\ UNCHANGED timeVars
    /\ Quiet

\* handleDisconnect is run again for a socket that is already gone
DisconnectAgain(c, avail) ==
    /\ sock[c] = "closed"
    /\ Stepped("DisconnectAgain", c, "", TRUE)
    /\ Commit(handleDisconnect(Mem, c, avail))
    /\ UNCHANGED timeVars
    /\ Quiet

Ping(c) ==
    /\ sock[c] = "open"
    /\ Stepped("Ping", c, "", TRUE)
    /\ Commit(handlePing(Mem, c, clock))
    /\ UNCHANGED timeVars
    /\ Quiet

\* handlePing runs for a connection whose entry has been removed
PingGone(c) ==
    /\ sock[c] = "closed"
    /\ Stepped("PingGone", c, "", TRUE)
    /\ Commit(handlePing(Mem, c, clock))
    /\ UNCHANGED timeVars
    /\ Quiet

\* JOIN_GAME: the gateway subscribes no handler to it, the message is dropped
JoinGame(c, code, u) ==
    /\ sock[c] = "open"
    /\ Stepped("JoinGame", c, "", TRUE)
    /\ Commit(Mem)
    /\ UNCHANGED timeVars
    /\ Quiet

StartCountdown(c, g, duration) ==
    /\ sock[c] = "open"
    /\ nextTimer < MaxTimers
    /\ nextTimer' = nextTimer + 1
    /\ Stepped("StartCountdown", c, "", TRUE)
    /\ Commit(handleStartCountdown(Mem, g, duration, nextTimer + 1, clock))
    /\ UNCHANGED <<clock, scanDue, requests>>
    /\ Quiet

StopCountdown(c, g) ==
    /\ sock[c] = "open"
    /\ Stepped("StopCountdown", c, "", TRUE)
    /\ Commit(handleStopCountdown(Mem, g))
    /\ UNCHANGED timeVars
    /\ Quiet

Tick(iv) ==
    /\ iv \in intervals
    /\ clock >= iv.due
    /\ Stepped("Tick", "", "", TRUE)
    /\ Commit(tickCallback(Mem, iv, clock))
    /\ UNCHANGED timeVars
    /\ Quiet

(* --------------------------- specifications --------------------------- *)

\* the GameStore statements of the handlers in slots S fail as F allows
JoinSteps(S, F) ==
    \E i \in S :
        \/ \E ok \in F : JoinAddGame(i, ok)
        \/ \E ok \in F : JoinAddExisting(i, ok)
        \/ \E ok \in F : JoinAddInsert(i, ok)
        \/ JoinRoom(i)
        \/ JoinBind(i)
        \/ \E ok \in F : JoinPlayers(i, ok)
        \/ JoinBroadcast(i)

LeaveLobbySteps(S, F) ==
    \E i \in S :
        \/ LeaveLobbyRoom(i)
        \/ LeaveLobbyBind(i)
        \/ \E ok \in F : LeaveLobbyPlayers(i, ok)
        \/ LeaveLobbyBroadcast(i)

LeaveGameSteps(S) ==
    \E i \in S :
        \/ LeaveGameRoom(i)
        \/ LeaveGameBind(i)

StartGameSteps(S, F) ==
    \E i \in S :
        \/ \E ok \in F : StartGameHost(i, ok)
        \/ \E ok \in F : StartGameUpdate(i, ok)
        \/ StartGameBroadcast(i)

AnswerSteps(S, F) ==
    \E i \in S :
        \/ \E ok \in F : AnswerInsert(i, ok)
        \/ AnswerBroadcast(i)

ScanSteps(F) ==
    \E s \in ScanSlots :
        \/ \E ok \in F : ScanRemove(s, ok)
        \/ ScanRead(s)
        \/ \E ok \in F : ScanPlayers(s, ok)
        \/ \E avail \in BOOLEAN : ScanEmit(s, avail)

PlayerIds == 1..MaxPlayers

\* the lobby: connections come and go, join and leave, handlers interleave
Next ==
    \/ \E c \in Conns : Connect(c)
    \/ \E c \in Conns, avail \in BOOLEAN : Disconnect(c, avail)
    \/ \E i \in Slots, c \in Conns, code \in Codes, u \in Users, ok \in BOOLEAN :
          JoinLobby(i, c, code, u, ok)
    \/ JoinSteps(Slots, BOOLEAN)
    \/ \E i \in Slots, c \in Conns, g \in Games, p \in PlayerIds, ok \in BOOLEAN :
          LeaveLobby(i, c, g, p, ok)
    \/ LeaveLobbySteps(Slots, BOOLEAN)
    \/ \E i \in Slots, c \in Conns, g \in Games, p \in PlayerIds, ok \in BOOLEAN :
          LeaveGame(i, c, g, p, ok)
    \/ LeaveGameSteps(Slots)

Spec == Init /\ [][Next]_vars

\* every client request, one handler at a time
NextSeq ==
    \/ \E c \in Conns : Connect(c)
    \/ \E c \in Conns, avail \in BOOLEAN : Disconnect(c, avail)
    \/ \E c \in Conns, avail \in BOOLEAN : DisconnectAgain(c, avail)
    \/ \E c \in Conns, code \in Codes, u \in Users, ok \in BOOLEAN :
          JoinLobby(1, c, code, u, ok)
    \/ JoinSteps({1}, BOOLEAN)
    \/ \E c \in Conns, g \in Games, p \in PlayerIds, ok \in BOOLEAN :
          LeaveLobby(1, c, g, p, ok)
    \/ LeaveLobbySteps({1}, BOOLEAN)
    \/ \E c \in Conns, g \in Games, p \in PlayerIds, ok \in BOOLEAN :
          LeaveGame(1, c, g, p, ok)
    \/ LeaveGameSteps({1})
    \/ \E c \in Conns, g \in Games, u \in Users, ok \in BOOLEAN :
          StartGame(1, c, g, u, ok)
    \/ StartGameSteps({1}, BOOLEAN)
    \/ \E c \in Conns, g \in Games, p \in PlayerIds, q \in QuestionIds,
          o \in OptionIds, ok \in BOOLEAN :
          AnswerQuestion(1, c, g, p, q, o, 5, ok)
    \/ AnswerSteps({1}, BOOLEAN)
    \/ \E c \in Conns, code \in Games, u \in Users : JoinGame(c, code, u)

SpecSeq == Init /\ [][NextSeq]_vars

\* the countdown of the games, under a clock that advances in half tick periods
NextCountdown ==
    \/ AdvanceClock(ClockStep, MaxClock)
    \/ Connect("c1")
    \/ \E avail \in BOOLEAN : Disconnect("c1", avail)
    \/ JoinLobby(1, "c1", "g1", "u1", TRUE)
    \/ JoinSteps({1}, {TRUE})
    \/ \E g \in Games, d \in Durations : StartCountdown("c1", g, d)
    \/ \E g \in Games : StopCountdown("c1", g)
    \/ \E iv \in intervals : Tick(iv)

SpecCountdown == Init /\ [][NextCountdown]_vars

\* the latest time a tick callback can become due for a countdown that ends
\* by MaxClock: one period after a tick that ran just before the end time
LiveClock == MaxClock + TickPeriod

\* countdowns under a clock that keeps advancing and an event loop that runs
\* every interval callback that is due; countdowns start early enough to end
\* within the modelled time
NextCountdownLive ==
    \/ AdvanceClock(ClockStep, LiveClock)
    \/ Connect("c1")
    \/ \E g \in Games, d \in Durations :
          clock + d * 1000 <= MaxClock /\ StartCountdown("c1", g, d)
    \/ \E g \in Games : StopCountdown("c1", g)
    \/ \E iv \in intervals : Tick(iv)

SpecCountdownLive ==
    /\ Init
    /\ [][NextCountdownLive]_vars
    /\ WF_vars(AdvanceClock(ClockStep, LiveClock))
    /\ \A i \in 1..MaxTimers : WF_vars(\E iv \in intervals : iv.id = i /\ Tick(iv))

\* the heartbeat monitor, under a clock that advances in scan periods: c1 is
\* a client that goes silent, c2 one that sends PING
NextHeartbeat ==
    \/ AdvanceClock(ScanPeriod, MaxScanClock)
    \/ \E c \in Conns : Connect(c)
    \/ \E avail \in BOOLEAN : Disconnect("c1", avail)
    \/ Ping("c2")
    \/ JoinLobby(1, "c1", "g1", "u1", TRUE)
    \/ JoinLobby(1, "c2", "g1", "u2", TRUE)
    \/ JoinSteps({1}, {TRUE})
    \/ \E avail \in BOOLEAN : HeartbeatFire(avail)
    \/ ScanSteps(BOOLEAN)

SpecHeartbeat == Init /\ [][NextHeartbeat]_vars

\* eviction while a countdown runs: c1 joins g1, leaves a game, starts the
\* countdown of g1 and sends no PING
NextEvict ==
    \/ AdvanceClock(ScanPeriod, MaxScanClock)
    \/ Connect("c1")
    \/ JoinLobby(1, "c1", "g1", "u1", TRUE)
    \/ JoinSteps({1}, {TRUE})
    \/ \E g \in Games : LeaveGame(1, "c1", g, 1, TRUE)
    \/ LeaveGameSteps({1})
    \/ StartCountdown("c1", "g1", 3)
    \/ \E iv \in intervals : Tick(iv)
    \/ \E avail \in BOOLEAN : HeartbeatFire(avail)
    \/ ScanSteps(BOOLEAN)

SpecEvict == Init /\ [][NextEvict]_vars

\* PING of bound and unbound connections, and of connections that are gone,
\* while time passes and a countdown runs
NextPing ==
    \/ AdvanceClock(ScanPeriod, MaxScanClock)
    \/ \E c \in Conns : Connect(c)
    \/ \E c \in Conns : Disconnect(c, TRUE)
    \/ \E c \in Conns : Ping(c)
    \/ \E c \in Conns : PingGone(c)
    \/ JoinLobby(1, "c1", "g1", "u1", TRUE)
    \/ JoinSteps({1}, {TRUE})
    \/ StartCountdown("c1", "g1", 3)

SpecPing == Init /\ [][NextPing]_vars

\* joins and starts of games in any status, interleaved at every await
NextStart ==
    \/ \E c \in Conns : Connect(c)
    \/ \E i \in Slots, c \in Conns, code \in Codes, u \in Users, ok \in BOOLEAN :
          JoinLobby(i, c, code, u, ok)
    \/ JoinSteps(Slots, BOOLEAN)
    \/ \E i \in Slots, c \in Conns, g \in Games, u \in Users, ok \in BOOLEAN :
          StartGame(i, c, g, u, ok)
    \/ StartGameSteps(Slots, BOOLEAN)

SpecStart == InitAnyStatus /\ [][NextStart]_vars

(* -------------------------------- claims ------------------------------ *)

\* C1: every game has at most one live tick source, and every live tick
\* source is the one the countdown timer table records for its game.
C1_OneLiveTickSource ==
    /\ \A g \in Games : Cardinality({iv \in intervals : iv.gameId = g}) <= 1
    /\ \A iv \in intervals : countdownTimers[iv.gameId] = iv.id

\* a countdown was replaced by START_COUNTDOWN and its successor is running
C1_Witness ==
    /\ step.act = "StartCountdown"
    /\ \E i \in 1..MaxTimers : cancelled[i] = "replaced"
    /\ \E iv \in intervals : countdownTimers[iv.gameId] = iv.id /\ iv.id > 1

EventsOf(evs) == {k \in 1..Len(out) : out[k].ev \in evs}

\* C9: once a game's countdown was replaced by a second START_COUNTDOWN, every
\* COUNTDOWN_TICK comes from the countdown the table holds for the game and
\* carries that countdown's end time minus now; a cleared countdown emits no
\* tick and no COUNTDOWN_END, no countdown emits COUNTDOWN_END twice, and a
\* countdown that was not cleared stops only by emitting its COUNTDOWN_END.
C9_OnlyLatestCountdownTicks ==
    /\ \A k \in EventsOf({"COUNTDOWN_TICK"}) :
          \E iv \in intervals :
              /\ iv.id = countdownTimers[out[k].room]
              /\ iv.id = out[k].pl[3]
              /\ cancelled[iv.id] = ""
              /\ out[k].pl[2] = iv.endTime - clock
    /\ \A k \in EventsOf({"COUNTDOWN_END"}) : cancelled[out[k].pl[1]] = ""
    /\ \A i \in 1..MaxTimers :
          /\ ended[i] <= 1
          /\ cancelled[i] # "" => ended[i] = 0
          /\ (i <= nextTimer /\ cancelled[i] = "" /\ \A iv \in intervals : iv.id # i)
                => ended[i] = 1

\* the first countdown was replaced, and the second one has just ended
C9_Witness ==
    /\ step.act = "Tick"
    /\ cancelled[1] = "replaced"
    /\ Len(out) = 1 /\ out[1].ev = "COUNTDOWN_END" /\ out[1].pl[1] = 2
    /\ ended[2] = 1 /\ ended[1] = 0

\* C10: in the ticks of one countdown of duration D the seconds remaining are
\* ceil(remainingMs / 1000), never increase and lie in 1..D; a tick callback
\* that runs at or after the end time emits COUNTDOWN_END and no tick.
C10_TickMonotone ==
    [][\A iv \in intervals :
          Tick(iv) =>
             /\ Len(out') = 1
             /\ IF clock >= iv.endTime
                THEN out'[1].ev = "COUNTDOWN_END"
                ELSE /\ out'[1].ev = "COUNTDOWN_TICK"
                     /\ LET v == out'[1].pl[1]
                            remainingMs == iv.endTime - clock
                        IN /\ v >= 1 /\ v <= iv.duration
                           /\ iv.last # 0 => v <= iv.last
                           /\ (v - 1) * 1000 < remainingMs
                           /\ remainingMs <= v * 1000]_vars

\* a countdown of three seconds has ticked 2 and then 1
C10_Witness ==
    /\ step.act = "Tick"
    /\ \E iv \in intervals : iv.duration = 3 /\ iv.n = 2 /\ iv.last = 1
    /\ Len(out) = 1 /\ out[1].ev = "COUNTDOWN_TICK" /\ out[1].pl[1] = 1

\* C2: in every reachable state a connection is a member of at most one
\* game room, also after a JOIN_LOBBY for a second game by a connection that
\* is already in the room of a first game.
C2_AtMostOneRoom ==
    \A c \in Conns : Cardinality(rooms[c]) <= 1

Bound(c) == connectedClients[c].present /\ connectedClients[c].gameId # NoGame

\* C3: whenever no handler is suspended, every registry entry whose gameId is
\* set belongs to a connection that is a member of the room of exactly that
\* game and of no other room.
C3_BoundInExactlyItsRoom ==
    (\A i \in Slots : handlers[i].kind = "idle")
        => \A c \in Conns : Bound(c) => rooms[c] = {connectedClients[c].gameId}

\* the steps in which a handler reads the result of a GameStore call
StoreActs ==
    {"JoinLobby", "JoinAddGame", "JoinAddExisting", "JoinAddInsert", "LeaveLobby",
     "LeaveGame", "StartGame", "StartGameHost", "StartGameUpdate", "AnswerQuestion",
     "AnswerInsert"}

GatewayUnchanged ==
    /\ connectedClients' = connectedClients
    /\ rooms' = rooms
    /\ countdownTimers' = countdownTimers
    /\ intervals' = intervals

AddActs == {"JoinAddGame", "JoinAddExisting", "JoinAddInsert"}

\* the add-player call of the join handler h has succeeded: its player row exists
Added(h) ==
    /\ h.kind = "join"
    /\ h.player \in DOMAIN players
    /\ players[h.player].gameId = h.game
    /\ players[h.player].userId = h.user

\* C5: a JOIN_LOBBY whose add-player call is rejected broadcasts no
\* player-joined event, adds no room membership and binds nothing, and ends;
\* a connection is added to a room, bound to a game or announced as joined
\* only by a join handler whose add-player call has succeeded.
C5_NoJoinWithoutAddPlayer ==
    [][/\ (step'.act \in AddActs /\ ~step'.ok) =>
             /\ rooms' = rooms
             /\ connectedClients' = connectedClients
             /\ \A k \in 1..Len(out') : out'[k].ev = "LOBBY_ERROR"
             /\ \E i \in Slots :
                   /\ handlers[i].conn = step'.conn
                   /\ handlers[i].pc \in {"add_game", "add_existing", "add_insert"}
                   /\ handlers'[i].kind = "idle"
       /\ \A c \in Conns, g \in Games :
             (g \in rooms'[c] /\ g \notin rooms[c]) =>
                 \E i \in Slots : /\ Added(handlers[i]) /\ handlers[i].pc = "room"
                                  /\ handlers[i].conn = c /\ handlers[i].game = g
       /\ \A c \in Conns :
             (connectedClients'[c].gameId # connectedClients[c].gameId
                /\ connectedClients'[c].gameId # NoGame) =>
                 \E i \in Slots : /\ Added(handlers[i]) /\ handlers[i].pc = "bind"
                                  /\ handlers[i].conn = c
                                  /\ handlers[i].game = connectedClients'[c].gameId
       /\ \A k \in 1..Len(out') :
             out'[k].ev = "PLAYER_JOINED_LOBBY" =>
                 \E i \in Slots : /\ Added(handlers[i]) /\ handlers[i].pc = "bcast"
                                  /\ handlers[i].game = out'[k].room]_vars

\* the insert of add-player failed for a connection that is in no room
C5_Witness ==
    /\ step.act = "JoinAddInsert" /\ ~step.ok
    /\ rooms[step.conn] = {} /\ ~Bound(step.conn)
    /\ Len(out) = 1 /\ out[1].ev = "LOBBY_ERROR" /\ out[1].to = {step.conn}

\* C6: a JOIN_LOBBY for a game and a userId that already have an active
\* player returns that player's id in its success reply, inserts no row, so
\* that exactly one active player remains for (gameId, userId), and the
\* connection, if it is still open, is a member of the game's room.
C6_IdempotentJoin ==
    [][step'.act = "JoinBroadcast" =>
          \E i \in Slots :
             LET h == handlers[i]
                 active == {p \in DOMAIN players :
                               /\ players[p].gameId = h.game
                               /\ players[p].userId = h.user
                               /\ players[p].isActive}
             IN /\ h.kind = "join" /\ h.pc = "bcast"
                /\ out'[Len(out')].ev = "LOBBY_JOINED"
                /\ out'[Len(out')].to = {h.conn}
                /\ out'[Len(out')].pl[1] = h.player
                /\ active = {h.player}
                /\ h.seen # {} => h.seen = {h.player} /\ ~h.created
                /\ sock[h.conn] = "open" => h.game \in rooms'[h.conn]]_vars

\* the second join of user u1 to g1 found player 1 and is about to reply with it
C6_Witness ==
    \E i \in Slots :
        /\ handlers[i].kind = "join" /\ handlers[i].pc = "bcast"
        /\ handlers[i].seen = {1} /\ handlers[i].player = 1 /\ ~handlers[i].created
        /\ Len(players) = 1
        /\ sock[handlers[i].conn] = "open"
        /\ handlers[i].game \in rooms[handlers[i].conn]

\* C7: the disconnect of a connection bound to (gameId, playerId) broadcasts
\* exactly one PLAYER_LEFT, to the room of gameId, and removes the registry
\* entry; a further disconnect event for the removed connection id changes no
\* state and emits nothing.
C7_DisconnectOnce ==
    [][/\ (step'.act = "Disconnect" /\ Bound(step'.conn)) =>
             LET e == connectedClients[step'.conn] IN
             /\ Len(out') = 1
             /\ out'[1].ev = "PLAYER_LEFT"
             /\ out'[1].room = e.gameId
             /\ out'[1].pl = <<e.playerId, e.gameId>>
             /\ ~connectedClients'[step'.conn].present
       /\ step'.act = "DisconnectAgain" =>
             /\ ~connectedClients[step'.conn].present
             /\ out' = <<>>
             /\ GatewayUnchanged
             /\ UNCHANGED <<sock, storeVars, handlers, scans, ended, cancelled,
                            evicted, timeVars>>]_vars

\* a second disconnect event has been handled for a connection that was bound
C7_Witness ==
    /\ step.act = "DisconnectAgain"
    /\ connectedClients[step.conn].gameId # NoGame
    /\ ~connectedClients[step.conn].present
    /\ out = <<>>

\* C8: the eviction of a stale game-bound connection sends the room exactly
\* one player-left broadcast, and no connection is evicted twice, also when a
\* cleanup is still waiting for GameStore when the next scan fires.
C8_OnePlayerLeftPerEviction ==
    /\ \A c \in Conns : evicted[c] <= 1
    /\ step.act = "ScanEmit" =>
          Cardinality(EventsOf({"PLAYER_LEFT", "PLAYER_LEFT_LOBBY"})) = 1

\* C11: a START_GAME whose hostId is not the host of the game is rejected in
\* its first step: the caller alone receives one ERROR, no GAME_STARTED is
\* broadcast, the status of every game is unchanged and the handler is over.
C11_NonHostStartRejected ==
    [][\A i \in Slots, c \in Conns, g \in Games, u \in Users, ok \in BOOLEAN :
          (u # HostOf[g] /\ StartGame(i, c, g, u, ok)) =>
             /\ Len(out') = 1
             /\ out'[1].ev = "ERROR"
             /\ out'[1].room = NoGame
             /\ out'[1].to = {c}
             /\ gameStatus' = gameStatus
             /\ handlers' = handlers]_vars

\* user u2, who hosts no game, has sent START_GAME and got the ERROR
C11_Witness ==
    /\ step.act = "StartGame" /\ ~step.ok /\ step.user = "u2"
    /\ Len(out) = 1 /\ out[1].ev = "ERROR" /\ out[1].to = {step.conn}
    /\ \A g \in Games : gameStatus[g] = "waiting"

\* C12: whenever no handler and no cleanup is in progress, no connection is
\* bound to a player that GameStore marks inactive.
C12_NoBindingToInactivePlayer ==
    ((\A i \in Slots : handlers[i].kind = "idle")
        /\ (\A k \in ScanSlots : scans[k].pc = "idle"))
        => \A c \in Conns :
              (Bound(c) /\ connectedClients[c].playerId \in DOMAIN players)
                  => players[connectedClients[c].playerId].isActive

\* C13: the cleanup of a stale game-bound connection goes on whether or not
\* the deactivate-player call and the roster call succeed, and its last step
\* leaves the connection's socket closed and its registry entry removed.
C13_EvictionSurvivesStoreFailure ==
    [][/\ step'.act = "ScanRemove" =>
             \E k \in ScanSlots : /\ scans[k].pc = "remove"
                                  /\ scans[k].conn = step'.conn
                                  /\ scans'[k].pc = "read"
       /\ step'.act = "ScanPlayers" =>
             \E k \in ScanSlots : /\ scans[k].pc = "players"
                                  /\ scans[k].conn = step'.conn
                                  /\ scans'[k].pc = "emit"
       /\ step'.act = "ScanEmit" =>
             /\ sock'[step'.conn] = "closed"
             /\ ~connectedClients'[step'.conn].present]_vars

\* c1 has been evicted although its player could not be deactivated
C13_Witness ==
    /\ step.act = "ScanEmit" /\ step.conn = "c1"
    /\ sock["c1"] = "closed" /\ ~connectedClients["c1"].present
    /\ out[1].ev = "PLAYER_LEFT_LOBBY"
    /\ players[out[1].pl[1]].isActive
    /\ evicted["c1"] = 1

\* C14: a JOIN_LOBBY that is rejected when it arrives gets one LOBBY_ERROR,
\* sent to the caller only, and leaves no handler behind; and the game of a
\* player row that has just been inserted is in status waiting.
C14_JoinOnlyWaitingGames ==
    /\ (step.act = "JoinLobby" /\ out # <<>>) =>
          /\ Len(out) = 1
          /\ out[1].ev = "LOBBY_ERROR" /\ out[1].to = {step.conn}
    /\ (step.act = "JoinAddInsert" /\ step.ok) =>
          gameStatus[players[Len(players)].gameId] = "waiting"

\* C15: every status a successful START_GAME has replaced by in_progress was
\* waiting.
C15_OnlyWaitingToInProgress ==
    \A i \in Slots :
        (handlers[i].kind = "start" /\ handlers[i].pc = "bcast")
            => handlers[i].arg = <<"waiting">>

\* C16: when a second connection joins a waiting game after a first one,
\* with another userId, both players are active, both connections are open
\* and in the room and the roster query succeeds, then the second join emits
\* PLAYER_JOINED_LOBBY to a room holding both connections and LOBBY_JOINED to
\* the second joiner, both with the roster of exactly the two players.
C16_SecondJoinRoster ==
    [][step'.act = "JoinBroadcast" =>
          \A i \in Slots, c \in Conns :
             LET h == handlers[i] IN
             (/\ h.kind = "join" /\ h.pc = "bcast" /\ h.res = <<TRUE>>
              /\ h.created /\ h.player = 2 /\ c # h.conn
              /\ sock[c] = "open" /\ sock[h.conn] = "open"
              /\ connectedClients[c].gameId = h.game
              /\ connectedClients[c].playerId = 1
              /\ h.game \in rooms[c]
              /\ players[1].gameId = h.game /\ players[2].gameId = h.game
              /\ players[1].isActive /\ players[2].isActive
              /\ players[1].userId # players[2].userId)
             => /\ Len(out') = 2
                /\ out'[1].ev = "PLAYER_JOINED_LOBBY"
                /\ out'[1].room = h.game
                /\ {c, h.conn} \subseteq out'[1].to
                /\ out'[1].pl = <<2, {1, 2}>>
                /\ out'[2].ev = "LOBBY_JOINED"
                /\ out'[2].to = {h.conn}
                /\ out'[2].pl = <<2, {1, 2}>>]_vars

\* c2 has joined g1 after c1 and both got the roster of two
C16_Witness ==
    /\ step.act = "JoinBroadcast" /\ step.conn = "c2"
    /\ Len(out) = 2
    /\ out[1].ev = "PLAYER_JOINED_LOBBY" /\ out[1].to = {"c1", "c2"}
    /\ out[1].pl = <<2, {1, 2}>>
    /\ out[2].ev = "LOBBY_JOINED" /\ out[2].pl = <<2, {1, 2}>>

\* C17: a JOIN_GAME request for a waiting game is answered with
\* JOIN_GAME_SUCCESS to the caller and PLAYER_JOINED to the game's room.
C17_JoinGameAnswered ==
    (step.act = "JoinGame" /\ \A g \in Games : gameStatus[g] = "waiting") =>
        /\ \E k \in 1..Len(out) :
              out[k].ev = "JOIN_GAME_SUCCESS" /\ out[k].to = {step.conn}
        /\ \E k \in 1..Len(out) : out[k].ev = "PLAYER_JOINED"

\* C18: a tick callback that runs with remaining time <= 0 broadcasts exactly
\* one COUNTDOWN_END, removes the game's timer entry and clears the interval;
\* a countdown that has ended emits no COUNTDOWN_TICK and no second
\* COUNTDOWN_END; no COUNTDOWN_TICK carries a remaining time <= 0.
C18_TerminalEnd ==
    [][/\ \A iv \in intervals :
             (Tick(iv) /\ iv.endTime - clock <= 0) =>
                /\ Len(out') = 1
                /\ out'[1].ev = "COUNTDOWN_END"
                /\ out'[1].room = iv.gameId
                /\ out'[1].pl = <<iv.id>>
                /\ countdownTimers'[iv.gameId] = NoTimer
                /\ \A x \in intervals' : x.id # iv.id
                /\ ended'[iv.id] = 1
       /\ \A k \in 1..Len(out') :
             out'[k].ev = "COUNTDOWN_TICK" => out'[k].pl[2] > 0
       /\ \A i \in 1..MaxTimers :
             ended[i] = 1 =>
                /\ ended'[i] = 1
                /\ \A x \in intervals' : x.id # i
                /\ \A k \in 1..Len(out') :
                      /\ out'[k].ev = "COUNTDOWN_TICK" => out'[k].pl[3] # i
                      /\ out'[k].ev = "COUNTDOWN_END" => out'[k].pl[1] # i]_vars

\* the first countdown has run to its end and its game is idle again
C18_Witness ==
    /\ step.act = "Tick"
    /\ Len(out) = 1 /\ out[1].ev = "COUNTDOWN_END" /\ out[1].pl = <<1>>
    /\ ended[1] = 1 /\ cancelled[1] = ""
    /\ \A g \in Games : countdownTimers[g] = NoTimer
    /\ intervals = {}

\* C19: STOP_COUNTDOWN for a game with a running timer clears that game's
\* interval and removes its timer entry without emitting any event; for a game
\* with no timer it changes no state and emits nothing, and is not an error;
\* in both cases the timers of the other games are untouched.
C19_StopCountdown ==
    [][\A c \in Conns, g \in Games :
          StopCountdown(c, g) =>
             /\ out' = <<>>
             /\ step'.ok
             /\ countdownTimers'[g] = NoTimer
             /\ intervals' = {x \in intervals : x.id # countdownTimers[g]}
             /\ \A x \in intervals' : x.gameId # g
             /\ \A o \in Games \ {g} : countdownTimers'[o] = countdownTimers[o]
             /\ connectedClients' = connectedClients
             /\ rooms' = rooms
             /\ ended' = ended
             /\ countdownTimers[g] = NoTimer => GatewayUnchanged]_vars

\* a countdown was stopped while another game's countdown keeps running
C19_Witness ==
    /\ step.act = "StopCountdown"
    /\ out = <<>>
    /\ \E i \in 1..MaxTimers : cancelled[i] = "stopped" /\ ended[i] = 0
    /\ \E iv \in intervals : countdownTimers[iv.gameId] = iv.id

\* countdown i has a live interval
Running(i) == \E iv \in intervals : iv.id = i

\* C20: under an advancing clock and fair firing of the tick callbacks, every
\* countdown that was started eventually has its interval cleared and its timer
\* entry removed, and a countdown that is never stopped or replaced eventually
\* broadcasts COUNTDOWN_END; no game keeps a timer entry forever.
C20_CountdownsTerminate ==
    /\ \A i \in 1..MaxTimers :
          /\ Running(i) ~> (~Running(i) /\ \A g \in Games : countdownTimers[g] # i)
          /\ Running(i) ~> (ended[i] = 1 \/ cancelled[i] # "")
    /\ \A g \in Games : (countdownTimers[g] # NoTimer) ~> (countdownTimers[g] = NoTimer)

\* a countdown of the longest duration ran to its end, never stopped or replaced
C20_Witness ==
    /\ ended[1] = 1 /\ cancelled[1] = ""
    /\ clock >= 3 * 1000
    /\ ~Running(1)
    /\ \A g \in Games : countdownTimers[g] # 1

\* the connections that getConnectedPlayers counts for game g
InRoom(rs, g) == {b \in Conns : g \in rs[b]}

\* C21: when the heartbeat monitor evicts a connection, with no handler in
\* progress, and fewer than two members are left in the room of a game the
\* connection was in, that game has no timer entry after the step; when two or
\* more members are left, the game's timer entry is the one it was.
C21_EvictionStopsCountdown ==
    [][\A c \in Conns, g \in Games :
          (/\ step'.act \in {"HeartbeatFire", "ScanEmit"}
           /\ \A i \in Slots : handlers[i].kind = "idle"
           /\ sock[c] = "open" /\ sock'[c] = "closed"
           /\ g \in rooms[c])
             => IF Cardinality(InRoom(rooms', g)) < 2
                THEN countdownTimers'[g] = NoTimer
                ELSE countdownTimers'[g] = countdownTimers[g]]_vars

\* the broadcasts a handler makes for the connection that sent the request
Broadcasts ==
    {"PLAYER_JOINED_LOBBY", "PLAYER_LEFT_LOBBY", "PLAYER_LEFT", "GAME_STARTED",
     "PLAYER_ANSWERED"}

\* C22: a handler that finishes after its connection has gone (its socket is
\* closed) has discarded the late result of its GameStore call: its last step
\* broadcasts nothing for the connection, and the connection is not a member
\* of the room of the handler's game.
C22_LateResultsDiscarded ==
    [][\A i \in Slots :
          (/\ handlers[i].kind # "idle"
           /\ handlers'[i].kind = "idle"
           /\ sock[handlers[i].conn] = "closed")
             => /\ \A k \in 1..Len(out') : out'[k].ev \notin Broadcasts
                /\ handlers[i].game \notin rooms'[handlers[i].conn]]_vars

\* C23: a handler step taken for a connection whose registry entry has been
\* removed, by a disconnect or by an eviction, leaves the registry as it is:
\* the join handler creates and binds no entry, and when it finishes the
\* registry has no entry for the connection.
C23_NoEntryForGoneConnection ==
    [][\A i \in Slots :
          (/\ handlers[i].kind # "idle"
           /\ handlers'[i] # handlers[i]
           /\ ~connectedClients[handlers[i].conn].present)
             => /\ connectedClients' = connectedClients
                /\ ~connectedClients'[handlers[i].conn].present]_vars

\* the join handler of c1, whose add-player call inserted a player, reached its
\* binding step after the entry of c1 had been removed, and bound nothing
C23_Witness ==
    /\ step.act = "JoinBind" /\ step.conn = "c1"
    /\ sock["c1"] = "closed"
    /\ ~connectedClients["c1"].present
    /\ connectedClients["c1"].gameId = NoGame
    /\ handlers[1].kind = "join" /\ handlers[1].created

AnswerActs == {"AnswerQuestion", "AnswerInsert", "AnswerBroadcast"}

\* C24: an ANSWER_QUESTION whose answer row GameStore has inserted goes on to
\* one broadcast step, which sends exactly one PLAYER_ANSWERED, to the room of
\* the request's gameId, with the request's playerId, questionId and
\* timeToAnswer and the isCorrect and points of the option and question rows;
\* nothing else sends PLAYER_ANSWERED, and no step of the handler changes the
\* registry, a room or a timer.
C24_AnswerBroadcast ==
    [][/\ \A c \in Conns, g \in Games, p \in PlayerIds, q \in QuestionIds,
             o \in OptionIds :
             (AnswerQuestion(1, c, g, p, q, o, 5, TRUE) /\ handlers'[1].kind = "answer")
                => /\ handlers'[1].game = g /\ handlers'[1].player = p
                   /\ handlers'[1].arg = <<q, o, 5>>
       /\ (step'.act = "AnswerInsert" /\ step'.ok) =>
             \E i \in Slots : handlers'[i].kind = "answer" /\ handlers'[i].pc = "bcast"
       /\ step'.act = "AnswerBroadcast" =>
             \E i \in Slots :
                LET h == handlers[i] IN
                /\ h.kind = "answer" /\ h.pc = "bcast"
                /\ handlers'[i].kind = "idle"
                /\ <<h.player, h.arg[1], h.arg[2], h.arg[3], OptionCorrect[h.arg[2]]>>
                      \in answers
                /\ Len(out') = 1
                /\ out'[1].ev = "PLAYER_ANSWERED"
                /\ out'[1].room = h.game
                /\ out'[1].to = RoomMembers(Mem, h.game)
                /\ out'[1].pl = <<h.player, h.arg[1], h.arg[3], OptionCorrect[h.arg[2]],
                                  IF OptionCorrect[h.arg[2]]
                                  THEN QuestionPoints[h.arg[1]] ELSE 0>>
       /\ step'.act # "AnswerBroadcast" =>
             \A k \in 1..Len(out') : out'[k].ev # "PLAYER_ANSWERED"
       /\ step'.act \in AnswerActs =>
             /\ GatewayUnchanged
             /\ UNCHANGED <<sock, ended, cancelled>>]_vars

\* a correct answer of player 1 has been broadcast to the members of room g1
C24_Witness ==
    /\ step.act = "AnswerBroadcast"
    /\ Len(out) = 1 /\ out[1].ev = "PLAYER_ANSWERED"
    /\ out[1].room = "g1" /\ out[1].to # {}
    /\ out[1].pl = <<1, "q1", 5, TRUE, 2>>
    /\ <<1, "q1", "o1", 5, TRUE>> \in answers

\* C25: a PING of a registered connection sets the lastPing of its entry to
\* the current time and replies PONG to it; the entry's binding, every other
\* entry, the rooms, the sockets, the timers, GameStore and the handlers are
\* unchanged. A PING handled for a connection without an entry creates none,
\* changes nothing and is answered like any other.
C25_PingTouchesOnlyLastPing ==
    [][\A c \in Conns :
          (Ping(c) \/ PingGone(c)) =>
             /\ Len(out') = 1
             /\ out'[1].ev = "PONG" /\ out'[1].to = {c} /\ out'[1].room = NoGame
             /\ connectedClients' =
                   IF connectedClients[c].present
                   THEN [connectedClients EXCEPT ![c].lastPing = clock]
                   ELSE connectedClients
             /\ connectedClients'[c].present = connectedClients[c].present
             /\ UNCHANGED <<rooms, sock, countdownTimers, intervals, ended, cancelled,
                            storeVars, handlers, scans, evicted, timeVars>>]_vars

\* c1, bound to player 1 of g1, has sent PING 15 s or more after it connected
C25_Witness ==
    /\ step.act = "Ping" /\ step.conn = "c1"
    /\ Bound("c1") /\ connectedClients["c1"].playerId = 1
    /\ clock > 0 /\ connectedClients["c1"].lastPing = clock
    /\ out[1].ev = "PONG"

\* C26: GameStore never holds two active players with the same game and the
\* same userId, however the JOIN_LOBBY handlers interleave.
C26_OneActivePlayerPerUser ==
    \A g \in Games, u \in Users :
        Cardinality({p \in DOMAIN players :
                        /\ players[p].gameId = g
                        /\ players[p].userId = u
                        /\ players[p].isActive}) <= 1

\* the entry of c is older than the stale threshold now
StaleNow(c) == clock - connectedClients[c].lastPing > StaleThreshold

\* C27: the heartbeat monitor closes the socket of a connection, and starts to
\* deactivate its player, only when the connection is stale at that moment: a
\* connection whose PING came after the scan had selected it is left alone.
C27_EvictOnlyIfStillStale ==
    [][step'.act \in {"HeartbeatFire", "ScanEmit"} =>
          \A c \in Conns :
             /\ (sock[c] = "open" /\ sock'[c] = "closed") => StaleNow(c)
             /\ (\E s \in ScanSlots : /\ scans'[s].pc = "remove"
                                      /\ scans'[s].conn = c
                                      /\ scans'[s] # scans[s]) => StaleNow(c)]_vars

\* every active player of the table ps is bound to an entry of the registry cl
ActiveBound(ps, cl) ==
    \A p \in DOMAIN ps :
        ps[p].isActive =>
            \E c \in Conns : /\ cl[c].present
                             /\ cl[c].playerId = p
                             /\ cl[c].gameId = ps[p].gameId

\* C28: with no handler in progress, every player GameStore lists as active is
\* bound to a registered connection, and the disconnect of a bound connection
\* keeps it so: the player of the connection is deactivated and is in no
\* roster afterwards.
C28_ActivePlayersAreBound ==
    [][(/\ step'.act = "Disconnect"
        /\ \A i \in Slots : handlers[i].kind = "idle"
        /\ ActiveBound(players, connectedClients))
          => /\ ActiveBound(players', connectedClients')
             /\ Bound(step'.conn) =>
                   connectedClients[step'.conn].playerId
                      \notin getGamePlayers(players', connectedClients[step'.conn].gameId,
                                            TRUE)]_vars

\* C29: GAME_STARTED is broadcast at most once per game: no START_GAME whose
\* update found the game already started (and so set its start time again)
\* broadcasts GAME_STARTED.
C29_GameStartedOnce ==
    [][\A i \in Slots :
          (/\ handlers[i].kind = "start" /\ handlers[i].pc = "bcast"
           /\ handlers'[i].kind = "idle"
           /\ \E k \in 1..Len(out') : /\ out'[k].ev = "GAME_STARTED"
                                      /\ out'[k].room = handlers[i].game)
             => handlers[i].arg # <<"in_progress">>]_vars

RosterEvents == {"PLAYER_JOINED_LOBBY", "PLAYER_LEFT_LOBBY"}

\* C30: when a join or leave-lobby handler whose roster query succeeded makes
\* its broadcast and no handler is in progress afterwards, the roster in its
\* PLAYER_JOINED_LOBBY / PLAYER_LEFT_LOBBY is GameStore's list of the active
\* players of the game at that moment, however the handlers were interleaved.
C30_LastRosterIsCurrent ==
    [][\A i \in Slots :
          (/\ handlers[i].kind \in {"join", "leaveLobby"}
           /\ handlers[i].pc = "bcast"
           /\ handlers[i].res = <<TRUE>>
           /\ \A j \in Slots : handlers'[j].kind = "idle")
             => \A k \in 1..Len(out') :
                   out'[k].ev \in RosterEvents =>
                      out'[k].pl[2] = getGamePlayers(players', handlers[i].game, TRUE)]_vars

====
